---- MODULE Spec2Model ----
(***************************************************************************)
(* Model of the Target Trial Emulation notebook TTE/TTE-v1.ipynb: four     *)
(* cells run in order (loader, IPCW, expand_trials, MSM).  A cell that     *)
(* raises stops the run.  Tables are pandas DataFrames: a set of columns   *)
(* and a sequence of rows, each row carrying its index label (name) and    *)
(* one cell per column.                                                    *)
(*                                                                         *)
(* Numbers.  Probabilities are integers in units of 1/Unit (Unit = 10000,  *)
(* so 0.01 is 100).  Weights are exact rationals [n, d] in lowest terms.   *)
(* IEEE division and interpolation are monotone and exact on the values    *)
(* used here (1.0/0.01 = 100.0, 1.0/1.0 = 1.0), so order comparisons and   *)
(* these equalities carry over to the float64 computation of the code.     *)
(* The float covariates x2, x4, age_s are carried as scaled integers.      *)
(***************************************************************************)
EXTENDS Integers, Sequences, FiniteSets, TLC

VARIABLES csv, pc, data, dtypes, ipcw_model, predicted, expanded_data, q99,
          msm_model, error, converged, signals

vars ==
  <<csv, pc, data, dtypes, ipcw_model, predicted, expanded_data, q99, msm_model, error,
    converged, signals>>

(* ---------------------------- bounds ----------------------------------- *)

MaxRows == 3

(* ---------------------------- schema ----------------------------------- *)

InputColumns ==
  {"id", "period", "treatment", "x1", "x2", "x3", "x4", "age", "age_s",
   "outcome", "censored", "eligible"}

DroppableColumns ==
  {"eligible", "censored", "x1", "x2", "x3", "x4", "period", "treatment",
   "outcome", "age"}

Unit == 100 * 100

ClipLower == Unit \div 100

Probs == {0, 50, 2500, Unit}

NoTable == [columns |-> {}, rows |-> <<>>]

NoError == [type |-> "none", name |-> "none", cell |-> "none"]

(* ---------------------------- rationals -------------------------------- *)

RECURSIVE GCD(_, _)
GCD(a, b) == IF b = 0 THEN a ELSE GCD(b, a % b)

Abs(x) == IF x < 0 THEN -x ELSE x

Rat(n, d) ==
  IF d = 0 THEN [n |-> 1, d |-> 0]
  ELSE LET g == GCD(Abs(n), Abs(d))
           s == IF d < 0 THEN -1 ELSE 1
       IN  [n |-> s * (n \div g), d |-> s * (d \div g)]

RatLE(a, b) == a.n * b.d <= b.n * a.d

RatLT(a, b) == a.n * b.d < b.n * a.d

RatAdd(a, b) == Rat(a.n * b.d + b.n * a.d, a.d * b.d)

RatSub(a, b) == Rat(a.n * b.d - b.n * a.d, a.d * b.d)

RatMul(a, b) == Rat(a.n * b.n, a.d * b.d)

RatMin(a, b) == IF RatLE(a, b) THEN a ELSE b

One == Rat(1, 1)

Unset == [n |-> 0, d |-> 0]

(* ---------------------------- DataFrame helpers ------------------------ *)

Column(df, c) == [i \in DOMAIN df.rows |-> df.rows[i].cells[c]]

SetColumn(df, c, f(_)) ==
  [columns |-> df.columns \cup {c},
   rows |-> [i \in DOMAIN df.rows |->
               [name |-> df.rows[i].name,
                cells |-> [k \in df.columns \cup {c} |->
                             IF k = c THEN f(df.rows[i])
                             ELSE df.rows[i].cells[k]]]]]

SetItem_Clobber(row, c, v) ==
  [name |-> row.name,
   cells |-> [k \in (DOMAIN row.cells) \cup {c} |->
                IF k = c \/ k = "age" THEN v ELSE row.cells[k]]]

SetItem(row, c, v) ==
  [name |-> row.name,
   cells |-> [k \in (DOMAIN row.cells) \cup {c} |->
                IF k = c THEN v ELSE row.cells[k]]]

(* ---------------------------- input file ------------------------------- *)

FullCells(i, e, c) ==
  [k \in InputColumns |->
     CASE k = "id"        -> 1 + (i \div 2)
       [] k = "period"    -> i % 2
       [] k = "treatment" -> (i + 1) % 2
       [] k = "x1"        -> i % 2
       [] k = "x2"        -> 115 - 60 * i
       [] k = "x3"        -> (i \div 2) % 2
       [] k = "x4"        -> 73 - 10 * (i \div 2)
       [] k = "age"       -> 36 + i
       [] k = "age_s"     -> 8 + 9 * i
       [] k = "outcome"   -> IF i = 2 THEN 1 ELSE 0
       [] k = "censored"  -> c
       [] k = "eligible"  -> e]

CensoringPatterns(n) ==
  {[i \in 1..n |-> 0], [i \in 1..n |-> (i - 1) % 2], [i \in 1..n |-> i % 2]}

CsvFile(n, elig, cens, missing) ==
  [columns |-> InputColumns \ missing,
   rows |-> [i \in 1..n |->
               [name |-> i - 1,
                cells |-> [k \in InputColumns \ missing |->
                             FullCells(i - 1, elig[i], cens[i])[k]]]]]

Init ==
  /\ \E n \in 0..MaxRows :
       \E elig \in [1..n -> {0, 1}], cens \in CensoringPatterns(n) :
         \E missing \in {{}} \cup {{m} : m \in DroppableColumns} :
           csv = CsvFile(n, elig, cens, missing)
  /\ pc = "start"
  /\ data = NoTable
  /\ dtypes = [k \in {} |-> "none"]
  /\ ipcw_model = "none"
  /\ predicted = <<>>
  /\ expanded_data = NoTable
  /\ q99 = Unset
  /\ msm_model = "none"
  /\ error = NoError
  /\ converged = [ipcw |-> "none", msm |-> "none"]
  /\ signals = {}

(* ---------------------------- loader cell ------------------------------ *)

ReadCsvDtypes(df) ==
  [k \in df.columns |-> IF k \in {"x2", "x4", "age_s"} THEN "float64" ELSE "int64"]

Raise(type, name, cell) ==
  /\ pc' = "failed"
  /\ error' = [type |-> type, name |-> name, cell |-> cell]

LoaderFirstMissing(df) ==
  IF "x3" \notin df.columns THEN "x3"
  ELSE IF "x4" \notin df.columns THEN "x4"
  ELSE "none"

LoaderKeyError ==
  /\ pc = "start"
  /\ LoaderFirstMissing(csv) # "none"
  /\ data' = csv
  /\ dtypes' = IF "x3" \in csv.columns
               THEN [ReadCsvDtypes(csv) EXCEPT !["x3"] = "category"]
               ELSE ReadCsvDtypes(csv)
  /\ Raise("KeyError", LoaderFirstMissing(csv), "loader")
  /\ UNCHANGED <<csv, ipcw_model, predicted, expanded_data, q99, msm_model,
               converged, signals>>

LoaderOk ==
  /\ pc = "start"
  /\ LoaderFirstMissing(csv) = "none"
  /\ data' = csv
  /\ dtypes' = [ReadCsvDtypes(csv) EXCEPT !["x3"] = "category", !["x4"] = "category"]
  /\ pc' = "loaded"
  /\ UNCHANGED <<csv, ipcw_model, predicted, expanded_data, q99, msm_model, error,
               converged, signals>>

(* ---------------------------- IPCW cell -------------------------------- *)

Clip_ZeroOnly(p, lower) == IF p <= 0 THEN lower ELSE p

Clip(p, lower) == IF p < lower THEN lower ELSE p

Invert_Upside(p) == Rat(p, Unit)

Invert(p) == Rat(Unit, p)

Uncensored(df) == SetColumn(df, "uncensored", LAMBDA r : 1 - r.cells["censored"])

IpcwFormulaFirstMissing(df) ==
  IF "x2" \notin df.columns THEN "x2"
  ELSE IF "x1" \notin df.columns THEN "x1"
  ELSE "none"

Weights(df, pred) ==
  LET raw == SetColumn(df, "p_uncensored", LAMBDA r : pred[r.name + 1])
      clipped == SetColumn(raw, "p_uncensored",
                           LAMBDA r : Clip(r.cells["p_uncensored"], ClipLower))
  IN  SetColumn(clipped, "ipcw", LAMBDA r : Invert(r.cells["p_uncensored"]))

WithDtype(dt, c, t) == [k \in (DOMAIN dt) \cup {c} |-> IF k = c THEN t ELSE dt[k]]

(* A fit that returns may or may not have converged within its iteration   *)
(* budget.  The summary printed by the IPCW cell has a "converged:" field; *)
(* the summary printed by the MSM cell has none ("No. Iterations" only),   *)
(* and neither cell reads the convergence status of its fit.               *)
FitStatus(conv) == IF conv THEN "yes" ELSE "no"

LogitSummarySignals(cell, conv) ==
  IF conv THEN {} ELSE {[cell |-> cell, text |-> "converged: False"]}

GlmSummarySignals(cell, conv) == {}

IPCWKeyError ==
  /\ pc = "loaded"
  /\ "censored" \notin data.columns
  /\ Raise("KeyError", "censored", "ipcw")
  /\ UNCHANGED <<csv, data, dtypes, ipcw_model, predicted, expanded_data, q99, msm_model,
               converged, signals>>

IPCWFormulaError ==
  /\ pc = "loaded"
  /\ "censored" \in data.columns
  /\ IpcwFormulaFirstMissing(data) # "none"
  /\ data' = Uncensored(data)
  /\ dtypes' = WithDtype(dtypes, "uncensored", "int64")
  /\ Raise("PatsyError", IpcwFormulaFirstMissing(data), "ipcw")
  /\ UNCHANGED <<csv, ipcw_model, predicted, expanded_data, q99, msm_model,
               converged, signals>>

IPCWFitRaises ==
  /\ pc = "loaded"
  /\ "censored" \in data.columns
  /\ IpcwFormulaFirstMissing(data) = "none"
  /\ data' = Uncensored(data)
  /\ dtypes' = WithDtype(dtypes, "uncensored", "int64")
  /\ Raise("FitError", "ipcw_model", "ipcw")
  /\ UNCHANGED <<csv, ipcw_model, predicted, expanded_data, q99, msm_model,
               converged, signals>>

IPCWOk ==
  /\ pc = "loaded"
  /\ "censored" \in data.columns
  /\ IpcwFormulaFirstMissing(data) = "none"
  /\ \E pred \in [1..Len(data.rows) -> Probs] :
       /\ predicted' = pred
       /\ data' = Weights(Uncensored(data), pred)
  /\ dtypes' = WithDtype(WithDtype(WithDtype(dtypes, "uncensored", "int64"),
                                   "p_uncensored", "float64"), "ipcw", "float64")
  /\ ipcw_model' = "fitted"
  /\ \E conv \in BOOLEAN :
       /\ converged' = [converged EXCEPT !.ipcw = FitStatus(conv)]
       /\ signals' = signals \cup LogitSummarySignals("ipcw", conv)
  /\ pc' = "weighted"
  /\ UNCHANGED <<csv, expanded_data, q99, msm_model, error>>

(* ---------------------------- expand_trials ---------------------------- *)

ExpandResult(rows, err) == [rows |-> rows, err |-> err]

IsEligible_Any(row) == row.cells["eligible"] \in {0, 1}

IsEligible(row) == row.cells["eligible"] = 1

NewRow_Swapped(row) ==
  SetItem(SetItem(row, "trial_period", 0), "followup_time", row.cells["period"])

NewRow(row) ==
  SetItem(SetItem(row, "trial_period", row.cells["period"]), "followup_time", 0)

AppendRow_Front(expanded_rows, new_row) == <<new_row>> \o expanded_rows

AppendRow(expanded_rows, new_row) == Append(expanded_rows, new_row)

RECURSIVE ExpandLoop(_, _, _)
ExpandLoop(df, i, expanded_rows) ==
  IF i > Len(df.rows) THEN ExpandResult(expanded_rows, "none")
  ELSE LET row == df.rows[i] IN
       IF "eligible" \notin DOMAIN row.cells THEN ExpandResult(expanded_rows, "eligible")
       ELSE IF IsEligible(row)
            THEN IF "period" \notin DOMAIN row.cells
                 THEN ExpandResult(expanded_rows, "period")
                 ELSE ExpandLoop(df, i + 1, AppendRow(expanded_rows, NewRow(row)))
            ELSE ExpandLoop(df, i + 1, expanded_rows)

DataFrameOfRows(rows) ==
  [columns |-> UNION {DOMAIN rows[i].cells : i \in DOMAIN rows}, rows |-> rows]

expand_trials_KeepColumns(df) ==
  LET r == ExpandLoop(df, 1, <<>>)
  IN  [err |-> r.err,
       df |-> [columns |-> df.columns \cup {"trial_period", "followup_time"},
               rows |-> r.rows]]

expand_trials(df) ==
  LET r == ExpandLoop(df, 1, <<>>)
  IN  [err |-> r.err, df |-> DataFrameOfRows(r.rows)]

ExpandKeyError ==
  /\ pc = "weighted"
  /\ expand_trials(data).err # "none"
  /\ Raise("KeyError", expand_trials(data).err, "expand")
  /\ UNCHANGED <<csv, data, dtypes, ipcw_model, predicted, expanded_data, q99, msm_model,
               converged, signals>>

ExpandOk ==
  /\ pc = "weighted"
  /\ expand_trials(data).err = "none"
  /\ expanded_data' = expand_trials(data).df
  /\ pc' = "expanded"
  /\ UNCHANGED <<csv, data, dtypes, ipcw_model, predicted, q99, msm_model, error,
               converged, signals>>

(* ---------------------------- MSM cell --------------------------------- *)

RECURSIVE Insert(_, _)
Insert(sorted, v) ==
  IF sorted = <<>> THEN <<v>>
  ELSE IF RatLE(v, Head(sorted)) THEN <<v>> \o sorted
  ELSE <<Head(sorted)>> \o Insert(Tail(sorted), v)

RECURSIVE Sort(_)
Sort(vals) == IF vals = <<>> THEN <<>> ELSE Insert(Sort(Tail(vals)), Head(vals))

Quantile99(vals) ==
  LET n == Len(vals)
      sorted == Sort(vals)
      h == 99 * (n - 1)
      lo == (h \div 100) + 1
      hi == IF lo + 1 > n THEN n ELSE lo + 1
      frac == Rat(h % 100, 100)
  IN  IF n = 0 THEN Unset
      ELSE RatAdd(sorted[lo], RatMul(RatSub(sorted[hi], sorted[lo]), frac))

Winsor_AlwaysCap(w, cap) == cap

Winsor_Max(w, cap) == IF RatLE(w, cap) THEN cap ELSE w

Winsor(w, cap) == RatMin(w, cap)

Winsorize(df, src, dst) ==
  SetColumn(df, dst, LAMBDA r : Winsor(r.cells[src], Quantile99(Column(df, src))))

AssignTreatment(df) ==
  SetColumn(df, "assigned_treatment", LAMBDA r : r.cells["treatment"])

MsmFirstMissingKey(df) ==
  IF "treatment" \notin df.columns THEN "treatment"
  ELSE IF "ipcw" \notin df.columns THEN "ipcw"
  ELSE "none"

MsmFormulaFirstMissing(df) ==
  IF "outcome" \notin df.columns THEN "outcome"
  ELSE IF "x2" \notin df.columns THEN "x2"
  ELSE "none"

MSMKeyError ==
  /\ pc = "expanded"
  /\ MsmFirstMissingKey(expanded_data) # "none"
  /\ expanded_data' = IF MsmFirstMissingKey(expanded_data) = "treatment"
                      THEN expanded_data
                      ELSE AssignTreatment(expanded_data)
  /\ Raise("KeyError", MsmFirstMissingKey(expanded_data), "msm")
  /\ UNCHANGED <<csv, data, dtypes, ipcw_model, predicted, q99, msm_model,
               converged, signals>>

MSMFormulaError ==
  /\ pc = "expanded"
  /\ MsmFirstMissingKey(expanded_data) = "none"
  /\ MsmFormulaFirstMissing(expanded_data) # "none"
  /\ q99' = Quantile99(Column(expanded_data, "ipcw"))
  /\ expanded_data' = Winsorize(AssignTreatment(expanded_data), "ipcw", "ipcw_winsor")
  /\ Raise("PatsyError", MsmFormulaFirstMissing(expanded_data), "msm")
  /\ UNCHANGED <<csv, data, dtypes, ipcw_model, predicted, msm_model,
               converged, signals>>

MSMFitRaises ==
  /\ pc = "expanded"
  /\ MsmFirstMissingKey(expanded_data) = "none"
  /\ MsmFormulaFirstMissing(expanded_data) = "none"
  /\ q99' = Quantile99(Column(expanded_data, "ipcw"))
  /\ expanded_data' = Winsorize(AssignTreatment(expanded_data), "ipcw", "ipcw_winsor")
  /\ Raise("FitError", "msm_model", "msm")
  /\ UNCHANGED <<csv, data, dtypes, ipcw_model, predicted, msm_model,
               converged, signals>>

MSMOk ==
  /\ pc = "expanded"
  /\ MsmFirstMissingKey(expanded_data) = "none"
  /\ MsmFormulaFirstMissing(expanded_data) = "none"
  /\ q99' = Quantile99(Column(expanded_data, "ipcw"))
  /\ expanded_data' = Winsorize(AssignTreatment(expanded_data), "ipcw", "ipcw_winsor")
  /\ msm_model' = "fitted"
  /\ \E conv \in BOOLEAN :
       /\ converged' = [converged EXCEPT !.msm = FitStatus(conv)]
       /\ signals' = signals \cup GlmSummarySignals("msm", conv)
  /\ pc' = "fitted"
  /\ UNCHANGED <<csv, data, dtypes, ipcw_model, predicted, error>>

Next ==
  \/ LoaderKeyError \/ LoaderOk
  \/ IPCWKeyError \/ IPCWFormulaError \/ IPCWFitRaises \/ IPCWOk
  \/ ExpandKeyError \/ ExpandOk
  \/ MSMKeyError \/ MSMFormulaError \/ MSMFitRaises \/ MSMOk

Spec == Init /\ [][Next]_vars

(* ======================================================================= *)
(* Properties                                                              *)
(* ======================================================================= *)

AfterExpand == pc \in {"expanded", "fitted"} \/ (pc = "failed" /\ error.cell = "msm")

SourceRow(r) == data.rows[r.name + 1]

EligibleNames == {data.rows[i].name : i \in {j \in DOMAIN data.rows : data.rows[j].cells["eligible"] = 1}}

IneligibleNames == {data.rows[i].name : i \in {j \in DOMAIN data.rows : data.rows[j].cells["eligible"] # 1}}

RowsNamed(df, nm) == {i \in DOMAIN df.rows : df.rows[i].name = nm}

(* C1: the table returned by expand_trials has as many rows as the input   *)
(* has rows with eligible == 1; every eligible input row yields exactly    *)
(* one output row and no row with eligible == 0 appears in the output.     *)
C1_RowCount ==
  AfterExpand =>
    /\ Len(expanded_data.rows) = Cardinality(EligibleNames)
    /\ \A nm \in EligibleNames : Cardinality(RowsNamed(expanded_data, nm)) = 1
    /\ \A nm \in IneligibleNames : RowsNamed(expanded_data, nm) = {}

C1_Witness ==
  /\ pc = "expanded"
  /\ Len(data.rows) = 3
  /\ Len(expanded_data.rows) = 2
  /\ IneligibleNames # {}

(* C2: every row returned by expand_trials has trial_period equal to the   *)
(* period of the eligible input row it was made from and followup_time 0;  *)
(* one patient with two periods, eligible = [1,0], censored = [0,0] gives  *)
(* exactly one trial-entry row, with the first row's period.               *)
C2_SinglePatientScenario ==
  /\ Len(data.rows) = 2
  /\ data.rows[1].cells["id"] = data.rows[2].cells["id"]
  /\ data.rows[1].cells["eligible"] = 1 /\ data.rows[2].cells["eligible"] = 0
  /\ data.rows[1].cells["censored"] = 0 /\ data.rows[2].cells["censored"] = 0

C2_TrialEntry ==
  AfterExpand =>
    /\ \A i \in DOMAIN expanded_data.rows :
         /\ expanded_data.rows[i].cells["trial_period"]
              = SourceRow(expanded_data.rows[i]).cells["period"]
         /\ expanded_data.rows[i].cells["followup_time"] = 0
    /\ C2_SinglePatientScenario =>
         /\ Len(expanded_data.rows) = 1
         /\ expanded_data.rows[1].cells["trial_period"] = data.rows[1].cells["period"]
         /\ expanded_data.rows[1].cells["followup_time"] = 0

C2_Witness ==
  /\ pc = "expanded"
  /\ InputColumns \subseteq data.columns
  /\ C2_SinglePatientScenario
  /\ Len(expanded_data.rows) = 1
  /\ expanded_data.rows[1].cells["trial_period"] = 0

(* C3: in the table returned by expand_trials every column of the          *)
(* observation table (12 input columns, uncensored, p_uncensored, ipcw)    *)
(* has the value of the eligible input row it came from, and the only      *)
(* columns that are not input columns are trial_period and followup_time.  *)
C3_SchemaPreserved ==
  pc = "expanded" =>
    /\ \A i \in DOMAIN expanded_data.rows :
         /\ data.columns \subseteq DOMAIN expanded_data.rows[i].cells
         /\ data.columns \subseteq expanded_data.columns
         /\ \A c \in data.columns :
              expanded_data.rows[i].cells[c] = SourceRow(expanded_data.rows[i]).cells[c]
    /\ expanded_data.columns \ data.columns \subseteq {"trial_period", "followup_time"}
    /\ expanded_data.rows # <<>> =>
         expanded_data.columns \ data.columns = {"trial_period", "followup_time"}

C3_Witness ==
  /\ pc = "expanded"
  /\ data.columns = InputColumns \cup {"uncensored", "p_uncensored", "ipcw"}
  /\ Len(expanded_data.rows) >= 2
  /\ IneligibleNames # {}

(* C4: the rows returned by expand_trials are in the relative order of the *)
(* eligible rows of the input: if eligible row a is before eligible row b  *)
(* in the input, a's trial-entry row is before b's in the output.          *)
C4_OrderPreserved ==
  AfterExpand =>
    \A i, j \in DOMAIN expanded_data.rows :
      i < j => expanded_data.rows[i].name < expanded_data.rows[j].name

C4_Witness ==
  /\ pc = "expanded"
  /\ Len(expanded_data.rows) >= 2
  /\ expanded_data.rows[1].name = 0
  /\ expanded_data.rows[2].name = 2

(* C5: after the IPCW cell, whatever probability in [0, 1] the censoring   *)
(* model predicted for a row, p_uncensored is in [0.01, 1], ipcw is        *)
(* 1 / p_uncensored and ipcw >= 1; uncensored is 1 - censored, so it is 1   *)
(* on every row when no row is censored.                                   *)
AfterIPCW == ipcw_model = "fitted"

C5_WeightBounds ==
  AfterIPCW =>
    \A i \in DOMAIN data.rows :
      LET c == data.rows[i].cells IN
        (0 <= predicted[i] /\ predicted[i] <= Unit) =>
          /\ c["uncensored"] = 1 - c["censored"]
          /\ 100 * c["p_uncensored"] >= Unit
          /\ c["p_uncensored"] <= Unit
          /\ c["ipcw"].n * c["p_uncensored"] = c["ipcw"].d * Unit
          /\ c["ipcw"].d > 0
          /\ c["ipcw"].n >= c["ipcw"].d

C5_Witness ==
  /\ pc = "weighted"
  /\ Len(data.rows) >= 2
  /\ \A i \in DOMAIN data.rows :
       data.rows[i].cells["censored"] = 0 /\ data.rows[i].cells["uncensored"] = 1
  /\ \E i \in DOMAIN data.rows : predicted[i] = 0
  /\ \E i \in DOMAIN data.rows : data.rows[i].cells["ipcw"] = One

(* C6: a row whose predicted probability of being uncensored is below      *)
(* 0.01 gets p_uncensored = 0.01 from the clipping step and ipcw = 100.    *)
C6_ClippedWeight ==
  AfterIPCW =>
    \A i \in DOMAIN data.rows :
      100 * predicted[i] < Unit =>
        /\ 100 * data.rows[i].cells["p_uncensored"] = Unit
        /\ data.rows[i].cells["ipcw"] = [n |-> 100, d |-> 1]

C6_Witness ==
  /\ pc = "weighted"
  /\ \E i \in DOMAIN data.rows :
       /\ predicted[i] > 0
       /\ 100 * predicted[i] < Unit
       /\ data.rows[i].cells["ipcw"] = [n |-> 100, d |-> 1]

(* C7: in the expanded table ipcw_winsor = min(ipcw, q99) on every row,    *)
(* where q99 is the 99th percentile (linear interpolation) of ipcw over    *)
(* the expanded table: ipcw_winsor <= q99, and ipcw_winsor = ipcw whenever *)
(* ipcw <= q99.                                                            *)
AfterWinsor == "ipcw_winsor" \in expanded_data.columns

CountBelow(vals, v) == Cardinality({i \in DOMAIN vals : RatLT(vals[i], v)})

CountAtMost(vals, v) == Cardinality({i \in DOMAIN vals : RatLE(vals[i], v)})

OrderStat(vals, k) ==
  CHOOSE v \in {vals[i] : i \in DOMAIN vals} :
    CountBelow(vals, v) < k /\ k <= CountAtMost(vals, v)

IsPercentile99(vals, q) ==
  LET n == Len(vals)
      h == 99 * (n - 1)
      a == OrderStat(vals, (h \div 100) + 1)
      b == OrderStat(vals, IF (h \div 100) + 2 > n THEN n ELSE (h \div 100) + 2)
  IN  \* 100 * (q - a) = (h mod 100) * (b - a), cross-multiplied
      100 * (q.n * a.d - a.n * q.d) * (b.d * a.d)
        = (h % 100) * (b.n * a.d - a.n * b.d) * (q.d * a.d)

C7_Winsorized ==
  AfterWinsor =>
    /\ IsPercentile99(Column(expanded_data, "ipcw"), q99)
    /\ \A i \in DOMAIN expanded_data.rows :
         LET w == expanded_data.rows[i].cells["ipcw"]
             ww == expanded_data.rows[i].cells["ipcw_winsor"]
         IN  /\ ww = RatMin(w, q99)
             /\ RatLE(ww, q99)
             /\ RatLE(w, q99) => ww = w

C7_Witness ==
  /\ pc = "fitted"
  /\ Len(expanded_data.rows) >= 2
  /\ \E i \in DOMAIN expanded_data.rows :
       RatLT(q99, expanded_data.rows[i].cells["ipcw"])
  /\ \E i \in DOMAIN expanded_data.rows :
       RatLT(expanded_data.rows[i].cells["ipcw"], q99)
  /\ ~IsPercentile99(Column(data, "ipcw"), q99)

(* C8 (as stated): winsorizing the already-winsorized column a second time *)
(* (99th percentile of ipcw_winsor, cap ipcw_winsor at it) changes nothing.*)
WinsorColumn == Column(expanded_data, "ipcw_winsor")

SecondPass ==
  Column(Winsorize(expanded_data, "ipcw_winsor", "ipcw_winsor"), "ipcw_winsor")

C8_Idempotent == AfterWinsor => SecondPass = WinsorColumn

(* C8 (amended): capping the winsorized column again at the same q99       *)
(* changes nothing; a second pass that recomputes the percentile from the  *)
(* winsorized column never raises a value, and changes nothing when the    *)
(* recomputed percentile equals q99.                                       *)
C8_SameCapIdempotent ==
  AfterWinsor =>
    \A i \in DOMAIN expanded_data.rows :
      /\ RatMin(WinsorColumn[i], q99) = WinsorColumn[i]
      /\ RatLE(SecondPass[i], WinsorColumn[i])
      /\ Quantile99(WinsorColumn) = q99 => SecondPass[i] = WinsorColumn[i]

C8_Witness ==
  /\ pc = "fitted"
  /\ Len(expanded_data.rows) >= 2
  /\ \E i \in DOMAIN expanded_data.rows : RatLT(SecondPass[i], WinsorColumn[i])

(* C9: when no input row has eligible == 1, expand_trials returns a table  *)
(* with zero rows and the MSM cell run on it raises: no outcome model is   *)
(* ever fitted.                                                            *)
C9_EmptyExpansionFails ==
  (AfterExpand /\ EligibleNames = {}) =>
    /\ expanded_data.rows = <<>>
    /\ msm_model = "none"
    /\ pc # "fitted"
    /\ pc = "failed" => (error.cell = "msm" /\ error.type # "none")

C9_Witness ==
  /\ pc = "failed"
  /\ error = [type |-> "KeyError", name |-> "treatment", cell |-> "msm"]
  /\ InputColumns \subseteq data.columns
  /\ Len(data.rows) >= 2
  /\ EligibleNames = {}

(* C10: if the input table lacks a column the pipeline requires, the run   *)
(* fails with an error naming that column before any processing: no        *)
(* derived column has been computed and no model has been fitted.          *)
RequiredColumns ==
  {"eligible", "censored", "x1", "x2", "x3", "x4", "period", "treatment", "outcome"}

MissingRequired == RequiredColumns \ csv.columns

C10_FailFast ==
  /\ MissingRequired # {} => pc # "fitted"
  /\ (pc = "failed" /\ error.name \in MissingRequired) =>
       /\ data.columns \subseteq InputColumns
       /\ ipcw_model = "none"
       /\ msm_model = "none"
       /\ expanded_data = NoTable

(* C11: when the censoring model or the outcome model does not converge,  *)
(* its stage reports the non-convergence as a warning or error in its      *)
(* output; no weights are computed and nothing is expanded or fitted       *)
(* downstream of a non-converged fit without that signal.                  *)
Reported(cell) == \E s \in signals : s.cell = cell

C11_NonConvergenceReported ==
  /\ converged.ipcw = "no" => (Reported("ipcw") \/ (pc = "failed" /\ error.cell = "ipcw"))
  /\ converged.msm = "no" => (Reported("msm") \/ (pc = "failed" /\ error.cell = "msm"))

(* C12: every stage leaves the table it received as input unchanged (same  *)
(* columns, same values): the IPCW cell and expand_trials leave data as    *)
(* it was, and the MSM cell leaves expanded_data as it was, whether the    *)
(* stage completes or raises.                                              *)
C12_StepLeavesInput ==
  /\ pc \in {"loaded", "weighted"} => data' = data
  /\ pc = "expanded" => expanded_data' = expanded_data

C12_InputsReadOnly == [][C12_StepLeavesInput]_vars

====
